---- MODULE Spec2Model ----
(***************************************************************************)
(* mongoose-paginator: the paginator classes of src/src/index.ts           *)
(* (BasePaginator, PageNumberPaginator, OffsetPaginator, CursorPaginator)  *)
(* over a collection of documents.  One paginator instance is constructed  *)
(* and then driven through its setters and paginate().  paginate() is an   *)
(* async method: a call is suspended at its await and resumes later, and   *)
(* setters may run in between.                                             *)
(*                                                                         *)
(* JavaScript values are tagged records, so that null, NaN, Infinity,      *)
(* numbers, strings, ObjectIds and Dates stay distinct.  Strings that the  *)
(* code converts (cursor tokens) are sequences of one-character strings.   *)
(***************************************************************************)
EXTENDS Integers, Sequences, FiniteSets, TLC

\* ------------------------------------------------------------------ bounds
MaxDocs == 3
MaxLimit == 2
MaxPage == 3
MaxOffset == 2
MaxCalls == 5

\* ------------------------------------------------------- JavaScript values
Null == [k |-> "null"]
Undefined == [k |-> "undefined"]
NaN == [k |-> "nan"]
Infinity == [k |-> "inf"]
Num(n) == [k |-> "num", v |-> n]
Str(s) == [k |-> "str", s |-> s]
Lit(w) == [k |-> "lit", w |-> w]
Oid(n) == [k |-> "oid", v |-> n]
\* a Date: the instant v milliseconds into day number `day` after 1970-01-01 (UTC)
Date(day, ms) == [k |-> "date", day |-> day, v |-> ms]
\* the Invalid Date that new Date(string) yields for a string it cannot parse
InvalidDate == [k |-> "invalid date"]

\* a < b on JavaScript numbers: false whenever either side is NaN
JsLess(a, b) ==
    CASE a.k = "nan" \/ b.k = "nan" -> FALSE
      [] a.k = "inf" -> FALSE
      [] b.k = "inf" -> TRUE
      [] OTHER -> a.v < b.v

\* a + n for an integer n
JsPlus(a, n) == IF a.k = "num" THEN Num(a.v + n) ELSE a

\* offset % limit for offset >= 0, limit >= 0: NaN when the divisor is 0
JsMod(a, b) == IF b = 0 THEN NaN ELSE Num(a % b)

\* variant of MathCeilDiv that rounds down
MathCeilDivFloor(total, limit) ==
    IF limit = 0
    THEN (IF total = 0 THEN NaN ELSE Infinity)
    ELSE Num(total \div limit)

\* Math.ceil(total / limit) for total >= 0, limit >= 0
MathCeilDiv(total, limit) ==
    IF limit = 0
    THEN (IF total = 0 THEN NaN ELSE Infinity)
    ELSE Num((total + limit - 1) \div limit)

\* Math.floor(offset / limit) for offset >= 0, limit >= 0
MathFloorDiv(offset, limit) ==
    IF limit = 0
    THEN (IF offset = 0 THEN NaN ELSE Infinity)
    ELSE Num(offset \div limit)

\* ------------------------------------------------------------------ strings
\* the characters the model's strings use, in code-unit order
Alphabet == << "-", ".", "0", "1", "2", "3", "4", "5", "6", "7", "8", "9",
               ":", "T", "Z", "a", "b", "c", "d", "e", "f", "x", "y", "z" >>

CharCode(c) == CHOOSE i \in 1..Len(Alphabet) : Alphabet[i] = c

HexChars == << "0", "1", "2", "3", "4", "5", "6", "7", "8", "9",
               "a", "b", "c", "d", "e", "f" >>

IsHexChar(c) == \E i \in 1..16 : HexChars[i] = c

HexDigitVal(c) == (CHOOSE i \in 1..16 : HexChars[i] = c) - 1

DecChars == << "0", "1", "2", "3", "4", "5", "6", "7", "8", "9" >>

IsDecChar(c) == \E i \in 1..10 : DecChars[i] = c

DecDigitVal(c) == (CHOOSE i \in 1..10 : DecChars[i] = c) - 1

\* string comparison by code units: s < t
RECURSIVE StrLess(_, _)
StrLess(s, t) ==
    IF t = <<>> THEN FALSE
    ELSE IF s = <<>> THEN TRUE
    ELSE IF CharCode(Head(s)) # CharCode(Head(t))
         THEN CharCode(Head(s)) < CharCode(Head(t))
         ELSE StrLess(Tail(s), Tail(t))

\* n written in `width` digits of the given base, most significant first
RECURSIVE Digits(_, _, _)
Digits(n, width, chars) ==
    IF width = 0 THEN <<>>
    ELSE Append(Digits(n \div Len(chars), width - 1, chars), chars[(n % Len(chars)) + 1])

RECURSIVE HexValue(_)
HexValue(s) ==
    IF s = <<>> THEN 0
    ELSE 16 * HexValue(SubSeq(s, 1, Len(s) - 1)) + HexDigitVal(s[Len(s)])

RECURSIVE DecValue(_)
DecValue(s) ==
    IF s = <<>> THEN 0
    ELSE 10 * DecValue(SubSeq(s, 1, Len(s) - 1)) + DecDigitVal(s[Len(s)])

\* String(objectId): the 24-character lower-case hex string
OidToString(n) == Digits(n, 24, HexChars)

\* whether new Types.ObjectId(s) accepts the string s: 24 hex characters
\* (the strings of the model are never 12 characters long, the other length
\* some versions of the driver accept)
IsValidObjectIdString(s) == Len(s) = 24 /\ \A i \in 1..24 : IsHexChar(s[i])

\* new Types.ObjectId(s) for a string it accepts
ObjectIdFromString(s) == Oid(HexValue(s))

\* date.toISOString() for a stored date; every stored date lies in the first
\* second of 1970-01-01
IsoPrefix == << "1", "9", "7", "0", "-", "0", "1", "-", "0", "1", "T",
                "0", "0", ":", "0", "0", ":", "0", "0", "." >>

DateToISOString(date) == IsoPrefix \o Digits(date.v, 3, DecChars) \o << "Z" >>

\* the day number of the first day of each month of 2001
MonthStart2001 == << 11323, 11354, 11382, 11413, 11443, 11474,
                     11504, 11535, 11566, 11596, 11627, 11657 >>

\* new Date(s), the parse Mongoose's date cast applies to a string (process
\* time zone UTC).  Two forms of string parse: an ISO-8601 instant (here of
\* the first second of 1970), and a string of decimal digits whose value is
\* 1..12, which the engine's fallback parser reads as the month of that number
\* in 2001 ("000000000000000000000002" is 2001-02-01T00:00:00.000Z).  Every
\* other string of the model (letters only, or digits of another value) is an
\* Invalid Date.
DateParse(s) ==
    LET iso == /\ Len(s) = 24
               /\ SubSeq(s, 1, 20) = IsoPrefix
               /\ \A i \in 21..23 : IsDecChar(s[i])
               /\ s[24] = "Z"
        digits == s # << >> /\ \A i \in 1..Len(s) : IsDecChar(s[i])
        lead == IF Len(s) > 2 THEN SubSeq(s, 1, Len(s) - 2) ELSE << >>
        tail == IF Len(s) > 2 THEN SubSeq(s, Len(s) - 1, Len(s)) ELSE s
        month == IF digits /\ (\A i \in 1..Len(lead) : lead[i] = "0")
                 THEN DecValue(tail) ELSE 0
    IN  IF iso THEN Date(0, DecValue(SubSeq(s, 21, 23)))
        ELSE IF month \in 1..12 THEN Date(MonthStart2001[month], 0)
        ELSE InvalidDate

\* ------------------------------------------------------------- the collection
\* The schema of the collection: _id (ObjectId), name (String), createdAt (Date).
Fields == { "_id", "name", "createdAt" }

\* name and createdAt of the i-th document; no two documents share a value
Names == << << "b" >>, << >>, << "a", "b" >>, << "a" >>, << "b", "a" >> >>

CreatedAt == << 20, 30, 10, 50, 40 >>

DocAt(i) == [ _id |-> Oid(i), name |-> Str(Names[i]), createdAt |-> Date(0, CreatedAt[i]) ]

\* the collections: the first n documents, for every n up to MaxDocs
Collections == { { DocAt(i) : i \in 1..n } : n \in 0..MaxDocs }

\* the empty collection and the largest one
EdgeCollections == { {}, { DocAt(i) : i \in 1..MaxDocs } }

\* the order of two stored values of the same type
ValueLess(a, b) ==
    CASE a.k = "str" -> StrLess(a.s, b.s)
      [] a.k = "date" -> a.day < b.day \/ (a.day = b.day /\ a.v < b.v)
      [] OTHER -> a.v < b.v

\* --------------------------------------------------------------- filters
\* A filter maps some fields to a condition [op, val]; op is $gt, $lt or $in.
EmptyFilter == [ f \in {} |-> Null ]

Cond(op, val) == [ op |-> op, val |-> val ]

\* filter[field] = cond on a filter object
AssignField(filter, field, cond) ==
    [ f \in (DOMAIN filter) \cup { field } |-> IF f = field THEN cond ELSE filter[f] ]

\* the filter objects the caller owns, as the caller built them
CallerFilters == <<
    EmptyFilter,
    AssignField(EmptyFilter, "_id", Cond("$in", { Oid(1), Oid(3) })),
    AssignField(EmptyFilter, "name", Cond("$lt", Str(<< "b" >>))) >>

\* args.filter: undefined, or a reference to one of the caller's filter objects
Ref(i) == [ k |-> "ref", id |-> i ]

FilterRefs == { Ref(i) : i \in 1..Len(CallerFilters) }

\* Mongoose casts a condition value to the schema type of its field: a string
\* compared with a Date field is parsed as a date; a string that is no date
\* makes the query fail with a CastError.
CastValue(field, val) ==
    IF field = "createdAt" /\ val.k = "str" THEN DateParse(val.s) ELSE val

CastFails(field, cond) ==
    cond.op # "$in" /\ CastValue(field, cond.val) = InvalidDate

FilterCastFails(filter) == \E f \in DOMAIN filter : CastFails(f, filter[f])

CondHolds(field, v, cond) ==
    CASE cond.op = "$in" -> v \in cond.val
      [] cond.op = "$gt" -> ValueLess(CastValue(field, cond.val), v)
      [] cond.op = "$lt" -> ValueLess(v, CastValue(field, cond.val))

Matches(doc, filter) == \A f \in DOMAIN filter : CondHolds(f, doc[f], filter[f])

\* ------------------------------------------------------------- sort specs
\* A sort spec is the sequence of the entries of the sort object, in key order.
Entry(field, dir) == [ field |-> field, dir |-> dir ]

\* every value of mongoose's SortOrder type
SortOrders == { Num(1), Num(-1), Lit("asc"), Lit("ascending"), Lit("desc"), Lit("descending") }

\* the directions the store sorts ascending
IsAscending(dir) == dir \in { Num(1), Lit("asc"), Lit("ascending") }

\* args.sort: undefined, or a sort object with at least one key
SortObj(entries) == [ k |-> "obj", entries |-> entries ]

SortSpecs ==
    { Undefined }
    \cup { SortObj(<< Entry("_id", d) >>) : d \in SortOrders }
    \cup { SortObj(<< Entry("name", d) >>) : d \in { Num(1), Num(-1) } }
    \cup { SortObj(<< Entry("createdAt", Num(-1)) >>) }
    \cup { SortObj(<< Entry("name", Num(-1)), Entry("_id", Num(1)) >>) }

\* whether the store returns a before b under the entries of a sort object;
\* documents that tie on every entry come in insertion order (ascending _id)
RECURSIVE DocBefore(_, _, _)
DocBefore(a, b, spec) ==
    IF spec = << >> THEN a._id.v < b._id.v
    ELSE LET f == Head(spec).field IN
         IF a[f] = b[f] THEN DocBefore(a, b, Tail(spec))
         ELSE IF IsAscending(Head(spec).dir) THEN ValueLess(a[f], b[f])
         ELSE ValueLess(b[f], a[f])

RECURSIVE SortDocs(_, _)
SortDocs(S, spec) ==
    IF S = {} THEN << >>
    ELSE LET first == CHOOSE d \in S : \A e \in S \ { d } : DocBefore(d, e, spec)
         IN  << first >> \o SortDocs(S \ { first }, spec)

\* query.skip(n)
Skip(rows, n) == SubSeq(rows, n + 1, Len(rows))

\* query.limit(n): a limit of 0 is no limit
Limit(rows, n) == IF n = 0 \/ n >= Len(rows) THEN rows ELSE SubSeq(rows, 1, n)

\* model.find(filter).sort(spec).skip(skip).limit(limit) on a collection
Find(coll, filter, spec, skip, limit) ==
    Limit(Skip(SortDocs({ d \in coll : Matches(d, filter) }, spec), skip), limit)

\* model.countDocuments(filter)
CountDocuments(coll, filter) == Cardinality({ d \in coll : Matches(d, filter) })

\* query.sort(sort): no sort at all when sort is undefined
SortEntries(sort) == IF sort.k = "obj" THEN sort.entries ELSE << >>

\* -------------------------------------------------------------------- state
VARIABLES
    docs,          \* the documents of the collection behind `model`
    filterObjs,    \* the contents of the caller's filter objects, by reference
    strategy,      \* "none" before construction, then "base", "page", "offset" or "cursor"
    args,          \* this.args: [filter, sort]
    page,          \* PageNumberPaginator.page (0 while the field does not exist)
    offset,        \* OffsetPaginator.offset (0 while the field does not exist)
    cursor,        \* CursorPaginator.cursor: Null or Str(s)
    limit,         \* this.limit (0 while the field does not exist)
    pending,       \* the paginate() call suspended at its await, or NoCall
    ret,           \* what the most recently completed operation returned or threw
    issued,        \* the queries issued by the paginate() call whose outcome is ret
    served,        \* the fields that call read when it was made (Undefined otherwise)
    lastMutation,  \* the most recent constructor or setter call
    visited,       \* the rows a cursor traversal has collected so far
    calls          \* the paginate() calls a cursor traversal has made

vars == << docs, filterObjs, strategy, args, page, offset, cursor, limit,
           pending, ret, issued, served, lastMutation, visited, calls >>

\* ----------------------------------------------------------------- inputs
\* every combination of a filter and a sort spec
ArgsChoices == [ filter : FilterRefs \cup { Undefined }, sort : SortSpecs ]

\* the args objects the caller of one instance passes to its constructor and
\* to setArgs
CallerArgs == {
    [ filter |-> Undefined, sort |-> Undefined ],
    [ filter |-> Ref(1), sort |-> SortObj(<< Entry("_id", Num(-1)) >>) ],
    [ filter |-> Ref(2), sort |-> Undefined ],
    [ filter |-> Ref(3), sort |-> SortObj(<< Entry("name", Num(1)) >>) ],
    [ filter |-> Undefined, sort |-> SortObj(<< Entry("_id", Lit("asc")) >>) ],
    [ filter |-> Undefined, sort |-> SortObj(<< Entry("createdAt", Num(-1)) >>) ] }

Limits == 0..MaxLimit

Pages == 1..MaxPage

Offsets == 0..MaxOffset

\* cursor tokens a caller may hand in: the empty string and the tokens
\* paginate() hands out for the first document under each sort field (the
\* name is no identifier and no date)
CursorStrings ==
    { << >>, OidToString(1), Names[1], DateToISOString(DocAt(1).createdAt) }

Cursors == { Null } \cup { Str(s) : s \in CursorStrings }

\* ------------------------------------------------------------ return values
This == [ kind |-> "this" ]

Instance == [ kind |-> "instance" ]

Thrown(name, message) == [ kind |-> "error", name |-> name, message |-> message ]

Result(data, meta) == [ kind |-> "result", data |-> data, meta |-> meta ]

\* new MongoosePaginatorError(message)
MongoosePaginatorError(message) == Thrown("MongoosePaginatorError", message)

FindQuery(filter, sort, skip, lim) ==
    [ op |-> "find", filter |-> filter, sort |-> sort, skip |-> skip, limit |-> lim ]

CountQuery(filter) == [ op |-> "countDocuments", filter |-> filter ]

\* ---------------------------------------------------------- suspended calls
\* no paginate() call is suspended
NoCall == [ k |-> "none" ]

\* the fields of the instance, as a paginate() call reads them
FieldsRead ==
    [ args |-> args, page |-> page, offset |-> offset, cursor |-> cursor, limit |-> limit ]

\* a paginate() call suspended at its await: the queries it issued and the
\* local constants it resumes with.  One call is suspended at a time.
Call(queries, locals) ==
    [ k |-> "call", at |-> FieldsRead, issued |-> queries, locals |-> locals ]

\* the call resumes: its outcome reaches the caller
Resume(outcome) ==
    /\ ret' = outcome
    /\ issued' = pending.issued
    /\ served' = pending.at
    /\ pending' = NoCall
    /\ UNCHANGED << docs, filterObjs, strategy, args, page, offset, cursor, limit,
                    lastMutation >>

Init ==
    /\ docs \in EdgeCollections
    /\ filterObjs = [ r \in FilterRefs |-> CallerFilters[r.id] ]
    /\ strategy = "none"
    /\ args = Undefined
    /\ page = 0
    /\ offset = 0
    /\ cursor = Undefined
    /\ limit = 0
    /\ pending = NoCall
    /\ ret = Undefined
    /\ issued = << >>
    /\ served = Undefined
    /\ lastMutation = [ op |-> "none" ]
    /\ visited = << >>
    /\ calls = 0

\* ------------------------------------------------------------ constructors
\* what every constructor leaves as it is
Constructed ==
    /\ issued' = << >>
    /\ UNCHANGED << docs, filterObjs, pending, served >>

\* new BasePaginator(model, args): this.args = args
NewBasePaginator(a) ==
    /\ strategy = "none"
    /\ strategy' = "base"
    /\ args' = a
    /\ ret' = Instance
    /\ lastMutation' = [ op |-> "new BasePaginator" ]
    /\ Constructed
    /\ UNCHANGED << page, offset, cursor, limit >>

NewPageNumberPaginator(p, l, a) ==
    /\ strategy = "none"
    /\ strategy' = "page"
    /\ args' = a
    /\ page' = p
    /\ limit' = l
    /\ ret' = Instance
    /\ lastMutation' = [ op |-> "new PageNumberPaginator" ]
    /\ Constructed
    /\ UNCHANGED << offset, cursor >>

\* variant of OffsetMisaligned that lets a limit of 0 through
OffsetMisalignedNoZeroCheck(o, l) == l # 0 /\ JsMod(o, l) # Num(0)

\* the guard of the OffsetPaginator constructor: offset % limit !== 0
OffsetMisaligned(o, l) == JsMod(o, l) # Num(0)

NewOffsetPaginator(o, l, a) ==
    /\ strategy = "none"
    /\ lastMutation' = [ op |-> "new OffsetPaginator", offset |-> o, limit |-> l ]
    /\ IF OffsetMisaligned(o, l)
       THEN /\ ret' = MongoosePaginatorError("Offset must be a multiple of limit)")
            /\ UNCHANGED << strategy, args, offset, limit >>
       ELSE /\ strategy' = "offset"
            /\ args' = a
            /\ offset' = o
            /\ limit' = l
            /\ ret' = Instance
    /\ Constructed
    /\ UNCHANGED << page, cursor >>

NewCursorPaginator(c, l, a) ==
    /\ strategy = "none"
    /\ strategy' = "cursor"
    /\ args' = a
    /\ cursor' = c
    /\ limit' = l
    /\ ret' = Instance
    /\ lastMutation' = [ op |-> "new CursorPaginator" ]
    /\ Constructed
    /\ UNCHANGED << page, offset >>

\* ------------------------------------------------------------------ setters
\* A setter stores its argument and returns this.  It may run while a
\* paginate() call is suspended; the call keeps the queries it issued.
Setter ==
    /\ ret' = This
    /\ issued' = << >>
    /\ served' = Undefined
    /\ lastMutation' = [ op |-> "set" ]
    /\ UNCHANGED << docs, filterObjs, strategy, pending >>

SetArgs(a) ==
    /\ strategy # "none"
    /\ args' = a
    /\ Setter
    /\ UNCHANGED << page, offset, cursor, limit >>

SetPage(p) ==
    /\ strategy = "page"
    /\ page' = p
    /\ Setter
    /\ UNCHANGED << args, offset, cursor, limit >>

SetLimit(l) ==
    /\ strategy \in { "page", "offset", "cursor" }
    /\ limit' = l
    /\ Setter
    /\ UNCHANGED << args, page, offset, cursor >>

SetOffset(o) ==
    /\ strategy = "offset"
    /\ offset' = o
    /\ Setter
    /\ UNCHANGED << args, page, cursor, limit >>

SetCursor(c) ==
    /\ strategy = "cursor"
    /\ cursor' = c
    /\ Setter
    /\ UNCHANGED << args, page, offset, limit >>

\* ----------------------------------------------------------------- paginate
\* paginate() is an async method: the call runs up to its await, where it is
\* suspended with the queries it issued; it resumes, once the queries have
\* settled, with its local constants and the fields the instance has by then.

\* this.args.filter || {}
FilterOrEmpty(ref) == IF ref = Undefined THEN EmptyFilter ELSE filterObjs[ref]

\* BasePaginator.paginate: the async method throws before it awaits anything
BasePaginate ==
    /\ strategy = "base"
    /\ pending = NoCall
    /\ pending' = Call(<< >>, [ thrown |-> MongoosePaginatorError("Method not implemented") ])
    /\ UNCHANGED << docs, filterObjs, strategy, args, page, offset, cursor, limit,
                    ret, issued, served, lastMutation >>

\* the promise BasePaginator.paginate returned rejects
BasePaginateResume ==
    /\ strategy = "base"
    /\ pending # NoCall
    /\ Resume(pending.locals.thrown)

\* PageNumberPaginator.getSkip
GetSkip == (page - 1) * limit

\* the meta object of the page-number and offset strategies
PageMeta(total, lastPage, currentPage) ==
    [ total |-> Num(total),
      lastPage |-> lastPage,
      currentPage |-> currentPage,
      perPage |-> Num(limit),
      prev |-> IF JsLess(Num(1), currentPage) THEN JsPlus(currentPage, -1) ELSE Null,
      next |-> IF JsLess(currentPage, lastPage) THEN JsPlus(currentPage, 1) ELSE Null ]

\* PageNumberPaginator.paginate up to its await: the find and the count query
PageNumberPaginate ==
    /\ strategy = "page"
    /\ pending = NoCall
    /\ LET filter == FilterOrEmpty(args.filter)
           sort == IF args.sort = Undefined
                   THEN SortObj(<< Entry("createdAt", Num(-1)) >>)
                   ELSE args.sort
       IN  pending' = Call(<< FindQuery(filter, sort, GetSkip, limit), CountQuery(filter) >>,
                           [ items |-> Find(docs, filter, SortEntries(sort), GetSkip, limit),
                             total |-> CountDocuments(docs, filter) ])
    /\ UNCHANGED << docs, filterObjs, strategy, args, page, offset, cursor, limit,
                    ret, issued, served, lastMutation >>

\* PageNumberPaginator.paginate after its await: the metadata, computed from
\* the fields the instance has now
PageNumberPaginateResume ==
    /\ strategy = "page"
    /\ pending # NoCall
    /\ LET total == pending.locals.total
           lastPage == MathCeilDiv(total, limit)
           currentPage == Num(page)
       IN  Resume(Result(pending.locals.items, PageMeta(total, lastPage, currentPage)))

\* OffsetPaginator.paginate up to its await
OffsetPaginate ==
    /\ strategy = "offset"
    /\ pending = NoCall
    /\ LET filter == FilterOrEmpty(args.filter)
       IN  pending' = Call(<< FindQuery(filter, args.sort, offset, limit), CountQuery(filter) >>,
                           [ items |-> Find(docs, filter, SortEntries(args.sort), offset, limit),
                             total |-> CountDocuments(docs, filter) ])
    /\ UNCHANGED << docs, filterObjs, strategy, args, page, offset, cursor, limit,
                    ret, issued, served, lastMutation >>

\* OffsetPaginator.paginate after its await
OffsetPaginateResume ==
    /\ strategy = "offset"
    /\ pending # NoCall
    /\ LET total == pending.locals.total
           lastPage == MathCeilDiv(total, limit)
           currentPage == JsPlus(MathFloorDiv(offset, limit), 1)
       IN  Resume(Result(pending.locals.items, PageMeta(total, lastPage, currentPage)))

\* variant of SpreadFilter without the copy (filter = this.args.filter): the
\* local `filter` names the caller's object itself
SpreadFilterAlias(ref) == [ target |-> ref, content |-> FilterOrEmpty(ref) ]

\* { ...this.args.filter }: a fresh object (target Undefined: no caller object)
\* holding the caller's keys
SpreadFilter(ref) == [ target |-> Undefined, content |-> FilterOrEmpty(ref) ]

\* this.args.sort || { _id: 1 }
SortConfig(a) == IF a.sort = Undefined THEN SortObj(<< Entry("_id", Num(1)) >>) ELSE a.sort

\* Object.keys(sortConfig)[0] and Object.values(sortConfig)[0]
SortField(a) == SortConfig(a).entries[1].field

SortOrder(a) == SortConfig(a).entries[1].dir

\* if (this.cursor): null and the empty string are falsy
CursorPresent(c) == c.k = "str" /\ c.s # << >>

\* variant of RangeOp with the two operators swapped
RangeOpInverted(order) == IF order = Num(1) THEN "$lt" ELSE "$gt"

\* the operator of the range clause: sortOrder === 1 ? $gt : $lt
RangeOp(order) == IF order = Num(1) THEN "$gt" ELSE "$lt"

\* new Types.ObjectId(this.cursor) throws on a string that is no identifier
CursorParseThrows(a, c) ==
    CursorPresent(c) /\ SortField(a) = "_id" /\ ~IsValidObjectIdString(c.s)

\* the clause assigned to filter[sortField]
RangeClause(a, c) ==
    IF SortField(a) = "_id"
    THEN Cond(RangeOp(SortOrder(a)), ObjectIdFromString(c.s))
    ELSE Cond(RangeOp(SortOrder(a)), c)

\* variant of NextCursor that hands out a cursor only after a full page
NextCursorWhenFull(items, field) ==
    IF items = << >> \/ Len(items) < limit THEN Null
    ELSE Str(OidToString(items[Len(items)]._id.v))

\* the cursor generated from the last item
NextCursor(items, field) ==
    IF items = << >> THEN Null
    ELSE LET lastItem == items[Len(items)] IN
         IF field = "_id" THEN Str(OidToString(lastItem._id.v))
         ELSE LET cursorValue == lastItem[field] IN
              IF cursorValue.k = "date"
              THEN Str(DateToISOString(cursorValue))
              ELSE Str(cursorValue.s)

\* CursorPaginator.paginate up to its await: the filter copy, the range
\* clause and the find query; a cursor that is no identifier makes the call
\* throw before it issues the query
CursorPaginate ==
    /\ strategy = "cursor"
    /\ pending = NoCall
    /\ IF CursorParseThrows(args, cursor)
       THEN /\ pending' = Call(<< >>, [ thrown |-> Thrown("BSONError",
                                          "input must be a 24 character hex string") ])
            /\ UNCHANGED filterObjs
       ELSE LET local == SpreadFilter(args.filter)
                filter == IF CursorPresent(cursor)
                          THEN AssignField(local.content, SortField(args),
                                           RangeClause(args, cursor))
                          ELSE local.content
                sortConfig == SortConfig(args)
            IN  /\ filterObjs' = IF local.target \in FilterRefs
                                 THEN [ filterObjs EXCEPT ![local.target] = filter ]
                                 ELSE filterObjs
                /\ pending' = Call(<< FindQuery(filter, sortConfig, 0, limit) >>,
                       IF FilterCastFails(filter)
                       THEN [ thrown |-> Thrown("CastError", "Cast to date failed") ]
                       ELSE [ items |-> Find(docs, filter, SortEntries(sortConfig), 0, limit),
                              sortField |-> SortField(args) ])
    /\ UNCHANGED << docs, strategy, args, page, offset, cursor, limit,
                    ret, issued, served, lastMutation >>

\* CursorPaginator.paginate after its await: only local constants are read
CursorPaginateResume ==
    /\ strategy = "cursor"
    /\ pending # NoCall
    /\ LET locals == pending.locals
       IN  IF "thrown" \in DOMAIN locals
           THEN Resume(locals.thrown)
           ELSE Resume(Result(locals.items,
                              [ nextCursor |-> NextCursor(locals.items, locals.sortField) ]))

\* ------------------------------------------------------------ specification
Idle == UNCHANGED << visited, calls >>

Next ==
    \/ \E a \in CallerArgs : NewBasePaginator(a) /\ Idle
    \/ \E p \in Pages, l \in Limits, a \in CallerArgs : NewPageNumberPaginator(p, l, a) /\ Idle
    \/ \E o \in Offsets, l \in Limits, a \in CallerArgs : NewOffsetPaginator(o, l, a) /\ Idle
    \/ \E c \in Cursors, l \in Limits, a \in CallerArgs : NewCursorPaginator(c, l, a) /\ Idle
    \/ \E a \in CallerArgs : SetArgs(a) /\ Idle
    \/ \E p \in Pages : SetPage(p) /\ Idle
    \/ \E l \in Limits : SetLimit(l) /\ Idle
    \/ \E o \in Offsets : SetOffset(o) /\ Idle
    \/ \E c \in Cursors \ { Null } : SetCursor(c) /\ Idle
    \/ BasePaginate /\ Idle
    \/ BasePaginateResume /\ Idle
    \/ PageNumberPaginate /\ Idle
    \/ PageNumberPaginateResume /\ Idle
    \/ OffsetPaginate /\ Idle
    \/ OffsetPaginateResume /\ Idle
    \/ CursorPaginate /\ Idle
    \/ CursorPaginateResume /\ Idle

Spec == Init /\ [][Next]_vars

\* ---------------------------------------------------- the cursor traversal
\* A caller's loop over a new CursorPaginator(model, null, limit, args):
\* await paginate(), then setCursor(meta.nextCursor), until nextCursor is null.
InitTraverse ==
    /\ docs \in Collections
    /\ filterObjs = [ r \in FilterRefs |-> CallerFilters[r.id] ]
    /\ strategy = "cursor"
    /\ args \in ArgsChoices
    /\ page = 0
    /\ offset = 0
    /\ cursor = Null
    /\ limit \in 1..MaxLimit
    /\ pending = NoCall
    /\ ret = Instance
    /\ issued = << >>
    /\ served = Undefined
    /\ lastMutation = [ op |-> "new CursorPaginator" ]
    /\ visited = << >>
    /\ calls = 0

\* the loop calls paginate()
TraversePaginate ==
    /\ ret.kind \in { "instance", "this" }
    /\ calls < MaxCalls
    /\ CursorPaginate
    /\ calls' = calls + 1
    /\ UNCHANGED visited

\* the loop's await returns the page
TraverseAwait ==
    /\ CursorPaginateResume
    /\ visited' = IF ret'.kind = "result" THEN visited \o ret'.data ELSE visited
    /\ UNCHANGED calls

TraverseFeed ==
    /\ ret.kind = "result"
    /\ ret.meta.nextCursor # Null
    /\ SetCursor(ret.meta.nextCursor)
    /\ UNCHANGED << visited, calls >>

NextTraverse == TraversePaginate \/ TraverseAwait \/ TraverseFeed

SpecTraverse == InitTraverse /\ [][NextTraverse]_vars

\* ------------------------------------------------------------------- claims
\* the documents that match the filter of an args object
Matching(a) == { d \in docs : Matches(d, FilterOrEmpty(a.filter)) }

\* the documents that match the filter the caller supplied
CallerMatching == Matching(args)

\* whether ret is the outcome of a paginate() call; served then holds the
\* fields the call read when it was made
Paginated == served # Undefined

\* the value a document is ordered by under the first entry of the sort spec
SortKey(d) == d[SortField(args)]

\* whether d comes before e in the declared order of the first sort entry
DeclaredBefore(d, e) ==
    IF IsAscending(SortOrder(args))
    THEN ValueLess(SortKey(d), SortKey(e))
    ELSE ValueLess(SortKey(e), SortKey(d))

\* the rank of a matching document in the declared order, from 1
DeclaredRank(d) == 1 + Cardinality({ e \in CallerMatching : DeclaredBefore(e, d) })

TraversalDone == ret.kind = "result" /\ ret.meta.nextCursor = Null

\* C1: a cursor traversal from cursor = null that feeds nextCursor back until it
\* is null returns every document matching the caller's filter exactly once, in
\* the declared sort order, and ends after finitely many calls (no call before
\* the last returns an empty page, so at most one call more than there are
\* matching documents).
C1_TraversalVisitsEachOnce ==
    /\ calls <= Cardinality(CallerMatching) + 1
    /\ TraversalDone =>
         /\ Len(visited) = Cardinality(CallerMatching)
         /\ \A i \in 1..Len(visited) :
              visited[i] \in CallerMatching /\ DeclaredRank(visited[i]) = i

\* the sort is the identity field with direction 1 (or left out), and the
\* caller's filter holds no condition on _id
PlainIdAscending ==
    /\ args.sort \in { Undefined, SortObj(<< Entry("_id", Num(1)) >>) }
    /\ "_id" \notin DOMAIN FilterOrEmpty(args.filter)

Min(a, b) == IF a < b THEN a ELSE b

\* C3 as stated: when N matching documents are traversed with limit L and N is
\* not a multiple of L, the call that returns the final N mod L rows returns
\* nextCursor = null.
C3_ShortFinalPageEndsTraversal ==
    ( /\ PlainIdAscending
      /\ ret.kind = "result"
      /\ Cardinality(CallerMatching) % limit # 0
      /\ Len(ret.data) = Cardinality(CallerMatching) % limit
      /\ Len(visited) = Cardinality(CallerMatching) )
    => ret.meta.nextCursor = Null

\* C3 amended: with N matching documents, limit L and N not a multiple of L,
\* call number c returns rows (c-1)L+1 .. min(cL, N) of the ascending _id order;
\* every call that returns rows, the one returning the final N mod L rows
\* included, returns the last row's identifier as nextCursor, and only a call
\* that returns 0 rows returns nextCursor = null.
C3_ShortFinalPageKeepsCursor ==
    ( /\ PlainIdAscending
      /\ ret.kind = "result"
      /\ Cardinality(CallerMatching) % limit # 0 )
    => LET N == Cardinality(CallerMatching) IN
       /\ Len(visited) = Min(calls * limit, N)
       /\ \A i \in 1..Len(visited) :
            /\ visited[i] \in CallerMatching
            /\ Cardinality({ e \in CallerMatching : e._id.v < visited[i]._id.v }) = i - 1
       /\ Len(ret.data) = Len(visited) - Min((calls - 1) * limit, N)
       /\ ret.data # << >> =>
            ret.meta.nextCursor = Str(OidToString(ret.data[Len(ret.data)]._id.v))
       /\ ret.data = << >> => ret.meta.nextCursor = Null

\* a traversal of 3 documents with limit 2 after its third call: the second
\* call returned the final row with a cursor, the third returned nothing
C3_Witness ==
    /\ PlainIdAscending
    /\ Cardinality(CallerMatching) = 3
    /\ limit = 2
    /\ calls = 3
    /\ ret.kind = "result"
    /\ ret.data = << >>
    /\ ret.meta.nextCursor = Null
    /\ Len(visited) = 3

\* C2: for every cursor paginate() call that returns, meta.nextCursor is null
\* if and only if the returned data is empty.
C2_NextCursorNullIffEmpty ==
    (strategy = "cursor" /\ ret.kind = "result")
    => (ret.meta.nextCursor = Null <=> ret.data = << >>)

\* a page shorter than the limit that still carries a cursor
C2_Witness ==
    /\ strategy = "cursor"
    /\ ret.kind = "result"
    /\ ret.data # << >>
    /\ Len(ret.data) < served.limit
    /\ ret.meta.nextCursor.k = "str"

\* C4: page-number and offset strategies, limit >= 1 when the metadata is
\* built: total is the number of documents matching the filter the call
\* queried, lastPage is the least n with n * limit >= total (the ceiling of
\* total / limit, 0 for total 0), next is null iff currentPage >= lastPage and
\* currentPage + 1 otherwise, prev is null iff currentPage <= 1 and
\* currentPage - 1 otherwise; the page-number strategy reports the page field
\* as currentPage, and perPage is the limit.
C4_PageMetadata ==
    (strategy \in { "page", "offset" } /\ ret.kind = "result" /\ limit >= 1)
    => LET m == ret.meta IN
       /\ m.total = Num(Cardinality(Matching(served.args)))
       /\ m.perPage = Num(limit)
       /\ m.lastPage.k = "num"
       /\ m.currentPage.k = "num"
       /\ m.lastPage.v * limit >= m.total.v
       /\ (m.lastPage.v - 1) * limit < m.total.v
       /\ (m.next = Null) <=> (m.currentPage.v >= m.lastPage.v)
       /\ (m.next # Null) => m.next = Num(m.currentPage.v + 1)
       /\ (m.prev = Null) <=> (m.currentPage.v <= 1)
       /\ (m.prev # Null) => m.prev = Num(m.currentPage.v - 1)
       /\ strategy = "page" => m.currentPage = Num(page)

\* a page beyond the last page of a non-empty result set
C4_Witness ==
    /\ strategy = "page"
    /\ ret.kind = "result"
    /\ limit >= 1
    /\ ret.meta.lastPage.v >= 2
    /\ ret.meta.total.v % limit # 0
    /\ page > ret.meta.lastPage.v
    /\ served.page = page
    /\ served.limit = limit
    /\ ret.data = << >>
    /\ ret.meta.next = Null
    /\ ret.meta.prev = Num(page - 1)

\* whether offset is a multiple of limit, for limit >= 1
IsMultiple(o, l) == l >= 1 /\ \E q \in 0..o : q * l = o

\* C5: the OffsetPaginator constructor, for offset >= 0 and limit >= 0, throws
\* a MongoosePaginatorError and builds nothing exactly when offset is not a
\* multiple of limit, which every limit = 0 counts as; otherwise it succeeds,
\* and paginate() on the instance it built reports currentPage = offset/limit + 1.
C5_OffsetConstructor ==
    lastMutation.op = "new OffsetPaginator"
    => LET o == lastMutation.offset
           l == lastMutation.limit
       IN  IF IsMultiple(o, l)
           THEN /\ strategy = "offset"
                /\ ret.kind \in { "instance", "result" }
                /\ ret.kind = "result" =>
                     \E q \in 0..o : q * l = o /\ ret.meta.currentPage = Num(q + 1)
           ELSE /\ strategy = "none"
                /\ ret.kind = "error"
                /\ ret.name = "MongoosePaginatorError"
                /\ issued = << >>

\* new OffsetPaginator(model, 2, 1) then paginate(): currentPage 3
C5_Witness ==
    /\ lastMutation = [ op |-> "new OffsetPaginator", offset |-> 2, limit |-> 1 ]
    /\ ret.kind = "result"
    /\ ret.meta.currentPage = Num(3)

\* C6: page-number and cursor paginate() with limit <= 0 fail with the
\* library's MongoosePaginatorError before any query is issued.
C6_NonPositiveLimitRejected ==
    (strategy \in { "page", "cursor" } /\ Paginated /\ served.limit <= 0)
    => /\ ret.kind = "error"
       /\ ret.name = "MongoosePaginatorError"
       /\ issued = << >>

\* C7: cursor paginate() sorting by _id with a non-empty cursor that is no
\* valid identifier fails with the library's MongoosePaginatorError and issues
\* no find query.
C7_MalformedCursorRejected ==
    ( /\ strategy = "cursor"
      /\ Paginated
      /\ SortField(served.args) = "_id"
      /\ served.cursor.k = "str"
      /\ served.cursor.s # << >>
      /\ ~IsValidObjectIdString(served.cursor.s) )
    => /\ ret.kind = "error"
       /\ ret.name = "MongoosePaginatorError"
       /\ issued = << >>

\* C8: the caller's filter objects keep the keys and values the caller gave
\* them, and when a cursor paginate() call adds a range clause, the clause is
\* in the filter passed to find.
C8_CallerFilterUnchanged ==
    /\ filterObjs = [ r \in FilterRefs |-> CallerFilters[r.id] ]
    /\ (strategy = "cursor" /\ Paginated /\ CursorPresent(served.cursor) /\ issued # << >>)
       => /\ SortField(served.args) \in DOMAIN issued[1].filter
          /\ issued[1].filter[SortField(served.args)] = RangeClause(served.args, served.cursor)

\* a cursor paginate() call on a caller-supplied filter object whose find
\* query carried a range clause the caller's object does not hold
C8_Witness ==
    /\ strategy = "cursor"
    /\ ret.kind = "result"
    /\ CursorPresent(served.cursor)
    /\ served.args.filter \in FilterRefs
    /\ issued # << >>
    /\ issued[1].filter # filterObjs[served.args.filter]
    /\ filterObjs[served.args.filter] = CallerFilters[served.args.filter.id]

\* C9: when a cursor is present, the range clause on the sort field is $gt for
\* every ascending direction value (1, asc, ascending) and $lt for every
\* descending one (-1, desc, descending).
C9_RangeFollowsDirection ==
    (strategy = "cursor" /\ Paginated /\ CursorPresent(served.cursor) /\ issued # << >>)
    => issued[1].filter[SortField(served.args)].op =
         (IF IsAscending(SortOrder(served.args)) THEN "$gt" ELSE "$lt")

\* C10: every row a cursor paginate() call returns satisfies the whole filter
\* the caller supplied.
C10_RowsSatisfyCallerFilter ==
    (strategy = "cursor" /\ ret.kind = "result")
    => \A i \in 1..Len(ret.data) : ret.data[i] \in Matching(served.args)

\* C11: whenever paginate() runs on an OffsetPaginator that was constructed
\* successfully and then driven through setOffset and setLimit (none of them
\* while the call is suspended), limit is not 0 and offset is a multiple of
\* limit, so the reported currentPage satisfies (currentPage - 1) * limit =
\* offset, the skip the query applied.
C11_OffsetStaysAligned ==
    (strategy = "offset" /\ ret.kind = "result" /\ served = FieldsRead)
    => /\ limit # 0
       /\ IsMultiple(offset, limit)
       /\ issued[1].skip = offset
       /\ ret.meta.currentPage.k = "num"
       /\ (ret.meta.currentPage.v - 1) * limit = offset

====
